---------------------------- MODULE Spec2Model ----------------------------
(***************************************************************************)
(* The scan loop of erc20-indexer (src/main.rs, fn main): head query, block *)
(* fetch, transaction and log filter, Transfer decoding, batch buffer and  *)
(* bulk insert, progress line.  One action per suspension point of the     *)
(* loop; the chain client and the store are the environment, their answers *)
(* drawn from bounded sets.                                                *)
(*                                                                         *)
(* Vectors of logs and of records are held in runs: the run [.., n |-> n]  *)
(* stands for n consecutive entries that are equal but for their log       *)
(* index (an ordinary entry is a run of 1), and vec_len is the number of   *)
(* entries a vector holds.  A receipt of MONGO_BATCH_SIZE logs is then one *)
(* run, and the filter and the decoder treat the logs of a run alike.      *)
(***************************************************************************)
EXTENDS Integers, Naturals, Sequences, FiniteSets

(***************************************************************************)
(* Program constants                                                       *)
(***************************************************************************)
MONGO_BATCH_SIZE == 15000

CONFIRMATION_LAG == 50

\* H160 values (abstract 20-byte addresses)
WETH == 1
AXS == 2
SLP == 3
STRANGER == 4

\* H256 values used as topic 0
TRANSFER_SIG == 101
APPROVAL_SIG == 102

\* ERC_TRANSFER_TOPIC, the hex string the filter compares with
ERC_TRANSFER_TOPIC == "0xddf2"

(***************************************************************************)
(* Bounds of the model                                                     *)
(***************************************************************************)
\* blocks exist on the chain for the heights 0..MaxChain
MaxChain == 1
\* the heads the chain client reports are (CONFIRMATION_LAG - 1)..(CONFIRMATION_LAG + MaxAhead)
MaxAhead == 1

(***************************************************************************)
(* to_string: serde serialisation with the quotes removed.  H160 and H256  *)
(* serialise as lowercase 0x-hex; the map is injective.                    *)
(***************************************************************************)
to_string(x) ==
    CASE x = WETH -> "0xc99a"
      [] x = AXS -> "0xed4a"
      [] x = SLP -> "0xa875"
      [] x = STRANGER -> "0x0bad"
      [] x = TRANSFER_SIG -> ERC_TRANSFER_TOPIC
      [] x = APPROVAL_SIG -> "0x8c5b"

\* the hardcoded allow-list of the transaction stage
contracts_of_interest == <<"0xc99a", "0xed4a", "0xa875">>

\* the registry: address string -> Contract
map ==
    [a \in {"0xc99a", "0xed4a", "0xa875"} |->
        CASE a = "0xc99a" -> [name |-> "WETH", decimals |-> 18, erc |-> "ERC20", address |-> "0xc99a"]
          [] a = "0xed4a" -> [name |-> "AXS", decimals |-> 18, erc |-> "ERC20", address |-> "0xed4a"]
          [] a = "0xa875" -> [name |-> "SLP", decimals |-> 0, erc |-> "ERC20", address |-> "0xa875"]]

\* map.values().filter(|c| c.erc == ERC20).map(|c| c.address)
contracts == {map[a].address : a \in {b \in DOMAIN map : map[b].erc = "ERC20"}}

contains(s, x) == \E i \in 1..Len(s) : s[i] = x

(***************************************************************************)
(* The Transfer event and ethabi's parse_log                               *)
(***************************************************************************)
\* Event { name: "Transfer", inputs: [_from indexed, _to indexed, _value], anonymous: false }
event == [name |-> "Transfer", indexed |-> 2, plain |-> 1, anonymous |-> FALSE]

\* parse_log fails unless topic 0 is the event's signature, there is one
\* topic per indexed parameter after it, and the data holds one 32-byte
\* word per non-indexed parameter
parse_ok(log) ==
    /\ Len(log.topics) = event.indexed + 1
    /\ log.topics[1] = TRANSFER_SIG
    /\ Len(log.data) = event.plain

parse_log(log) == <<log.topics[2], log.topics[3], log.data[1]>>

(***************************************************************************)
(* What the chain client can answer                                        *)
(***************************************************************************)
NoAddr == 0

GoodLog == [address |-> WETH, topics |-> <<TRANSFER_SIG, WETH, AXS>>, data |-> <<7>>]
ApprovalLog == [address |-> WETH, topics |-> <<APPROVAL_SIG, WETH, AXS>>, data |-> <<7>>]
StrangerLog == [address |-> STRANGER, topics |-> <<TRANSFER_SIG, WETH, AXS>>, data |-> <<7>>]
NoTopicLog == [address |-> WETH, topics |-> <<>>, data |-> <<7>>]
ShortLog == [address |-> WETH, topics |-> <<TRANSFER_SIG, WETH>>, data |-> <<7>>]

\* n consecutive logs equal to log
Run(log, n) == [log |-> log, n |-> n]

\* the receipts of the scan specification
SmallReceipts ==
    { <<>>,
      <<Run(GoodLog, 1)>>,
      <<Run(ApprovalLog, 1), Run(StrangerLog, 1), Run(GoodLog, 1)>>,
      <<Run(NoTopicLog, 1)>>,
      <<Run(GoodLog, 1), Run(ShortLog, 1)>> }

\* a receipt one log short of a batch
BulkReceipt == <<Run(GoodLog, MONGO_BATCH_SIZE - 1)>>

\* a receipt of exactly a batch
FullReceipt == <<Run(GoodLog, MONGO_BATCH_SIZE)>>

\* a receipt with two Transfers of a registry contract around another event
PairReceipt == <<Run(GoodLog, 1), Run(ApprovalLog, 1), Run(GoodLog, 1)>>

\* the receipts of the batch specification
BulkReceipts == { <<Run(GoodLog, 1)>>, PairReceipt, BulkReceipt, FullReceipt }

Timestamps == {1700}

\* the `to` of the transactions of a block: none, a watched address, another
Blocks ==
    [timestamp : Timestamps,
     transactions : { <<>>, <<NoAddr>>, <<STRANGER>>, <<WETH>>, <<STRANGER, WETH>>,
                      <<WETH, AXS>> }]

BulkBlocks == [timestamp : Timestamps, transactions : { <<WETH>>, <<WETH, AXS>> }]

Heads == (CONFIRMATION_LAG - 1)..(CONFIRMATION_LAG + MaxAhead)

\* a head that stays where it is, MaxAhead above the lag
BulkHeads == {CONFIRMATION_LAG + MaxAhead}

\* the head specification: a longer chain, more heads, plain blocks
TallChain == MaxChain + 1

WideHeads == (CONFIRMATION_LAG - 1)..(CONFIRMATION_LAG + MaxAhead + 1)

PlainBlocks == [timestamp : Timestamps, transactions : { <<>>, <<WETH>> }]

PlainReceipts == { <<Run(GoodLog, 1)>> }

\* the decoder specification: Transfer logs of WETH with any sender, any
\* receiver and values on both sides of 10 and of 16
TransferLog(from, to, value) ==
    [address |-> WETH, topics |-> <<TRANSFER_SIG, from, to>>, data |-> <<value>>]

DecodeValues == {0, 9, 10, 15, 16, 255, 1000000}

DecodeReceipts ==
    { <<Run(TransferLog(f, t, v), 1)>> : f \in {WETH, STRANGER}, t \in {AXS, STRANGER},
                                          v \in DecodeValues }

DecodeBlocks == [timestamp : Timestamps, transactions : { <<WETH>> }]

(***************************************************************************)
(* State                                                                   *)
(***************************************************************************)
VARIABLES
    pc,                 \* position in the loop: "head", "block", "txs", "flush", "report", "stopped", "aborted"
    fault,              \* what aborted the process: "none", "head", "overflow", "block", "receipt", "topics", "decode"
    stop,               \* let mut stop
    current_block,      \* let mut current_block
    transfer_storage,   \* let mut transfer_storage: Vec<Transfer>
    total_transfers,    \* let mut total_transfers
    chain_head_block,   \* chain_head_block of this iteration
    stream_stop_block,  \* stream_stop_block of this iteration
    block,              \* the block of this iteration
    timestamp,          \* let timestamp
    txi,                \* index of the next transaction of `for tx in block.transactions`
    heads,              \* history: the set of heads the chain client reported
    fetched,            \* history: every block requested and returned: its height, the head
                        \* reported in that iteration, its timestamp, its transactions' `to`
    receipts,           \* history: <<height, transaction index>> of every receipt fetched
    produced,           \* history: every record pushed to transfer_storage, in order
    inserts,            \* history: every insert_many call: [docs, ok, stored]
    lines,              \* history: the progress lines printed
    receipt_logs,       \* history: the logs of every receipt returned: [height, tx, logs]
    in_flight           \* the external calls issued and not yet answered

vars == <<pc, fault, stop, current_block, transfer_storage, total_transfers, chain_head_block,
          stream_stop_block, block, timestamp, txi, heads, fetched, receipts, produced,
          inserts, lines, receipt_logs, in_flight>>

NoBlock == [timestamp |-> 0, transactions |-> <<>>]

Init ==
    /\ pc = "head"
    /\ fault = "none"
    /\ stop = FALSE
    /\ current_block = 0
    /\ transfer_storage = <<>>
    /\ total_transfers = 0
    /\ chain_head_block = 0
    /\ stream_stop_block = 0
    /\ block = NoBlock
    /\ timestamp = 0
    /\ txi = 1
    /\ heads = {}
    /\ fetched = <<>>
    /\ receipts = <<>>
    /\ produced = <<>>
    /\ inserts = <<>>
    /\ lines = <<>>
    /\ receipt_logs = <<>>
    /\ in_flight = <<>>

(***************************************************************************)
(* u64 arithmetic.  A u64 is kept as its two's-complement representative:  *)
(* n >= 0 stands for n, and -k (k > 0) stands for 2^64 - k.  Subtraction   *)
(* and addition of small operands are then the integer ones, and the       *)
(* comparison is the unsigned one.                                         *)
(***************************************************************************)
u64_gt(a, b) ==
    IF (a < 0) = (b < 0) THEN a > b ELSE a < 0

\* a - b on u64: with overflow checks (debug profile) a panic, without
\* (release profile) the wrapped difference
u64_sub(a, b) ==
    IF a >= b THEN {[panic |-> FALSE, value |-> a - b]}
    ELSE {[panic |-> TRUE, value |-> 0], [panic |-> FALSE, value |-> a - b]}

(***************************************************************************)
(* Display of ethabi tokens: an address as 40 hex digits without 0x, an    *)
(* unsigned integer by its {:x} digits.                                    *)
(***************************************************************************)
HexDigit == <<"0", "1", "2", "3", "4", "5", "6", "7", "8", "9", "a", "b", "c", "d", "e", "f">>

RECURSIVE uint_display(_)
uint_display(n) ==
    IF n < 16 THEN <<HexDigit[n + 1]>>
    ELSE Append(uint_display(n \div 16), HexDigit[(n % 16) + 1])

address_display(a) ==
    CASE a = WETH -> "c99a"
      [] a = AXS -> "ed4a"
      [] a = SLP -> "a875"
      [] a = STRANGER -> "0bad"

(***************************************************************************)
(* The two filter stages and the decoder                                   *)
(***************************************************************************)
\* mutant of tx_matches: the allow-list is not consulted
tx_matches_any(tx_to) == tx_to # NoAddr

\* if let Some(tx_to) = tx.to { if contracts_of_interest.contains(..) {
tx_matches(tx_to) ==
    /\ tx_to # NoAddr
    /\ contains(contracts_of_interest, to_string(tx_to))

\* x.topics[0] indexes out of bounds on a log without topics
filter_panics(logs) == \E i \in 1..Len(logs) : Len(logs[i].log.topics) = 0

\* mutant of log_matches: the emitting address is not looked at
log_matches_any_emitter(log) ==
    to_string(log.topics[1]) = ERC_TRANSFER_TOPIC

\* lines 201-204: the filter closure
log_matches(log) ==
    /\ to_string(log.topics[1]) = ERC_TRANSFER_TOPIC
    /\ to_string(log.address) \in contracts

\* the positions, in receipt order, of the runs of logs the filter keeps
transfer_log(logs) ==
    SelectSeq([i \in 1..Len(logs) |-> i], LAMBDA i : log_matches(logs[i].log))

\* the number of logs in the runs before position i
RECURSIVE logs_before(_, _)
logs_before(logs, i) ==
    IF i = 1 THEN 0 ELSE logs_before(logs, i - 1) + logs[i - 1].n

\* how many of the kept runs (their positions: kept) are decoded before
\* parse_log(..).unwrap() panics
decoded_count(logs, kept) ==
    IF \A k \in 1..Len(kept) : parse_ok(logs[kept[k]].log) THEN Len(kept)
    ELSE (CHOOSE k \in 1..Len(kept) :
            /\ ~parse_ok(logs[kept[k]].log)
            /\ \A j \in 1..(k - 1) : parse_ok(logs[kept[j]].log)) - 1

\* mutant of Transfer: contract is the emitting address of the log
Transfer_of_emitter(tx_to, log, ts, origin, n) ==
    [contract |-> to_string(log.address),
     from |-> address_display(parse_log(log)[1]),
     to |-> address_display(parse_log(log)[2]),
     value |-> uint_display(parse_log(log)[3]),
     timestamp |-> ts,
     origin |-> origin,
     n |-> n]

\* the Transfers pushed for a run of n kept logs; origin is history, not a
\* field of the struct: <<height, transaction index, log index>> of the
\* first of them
Transfer(tx_to, log, ts, origin, n) ==
    [contract |-> to_string(tx_to),
     from |-> address_display(parse_log(log)[1]),
     to |-> address_display(parse_log(log)[2]),
     value |-> uint_display(parse_log(log)[3]),
     timestamp |-> ts,
     origin |-> origin,
     n |-> n]

\* lines 207-225: the records pushed for the first m kept runs
push_all(tx_to, logs, kept, m, ts, height, t) ==
    [k \in 1..m |->
        Transfer(tx_to, logs[kept[k]].log, ts,
                 <<height, t, logs_before(logs, kept[k]) + 1>>, logs[kept[k]].n)]

decoded(tx_to, logs, kept, ts, height, t) ==
    push_all(tx_to, logs, kept, decoded_count(logs, kept), ts, height, t)

\* transfer_storage.len(): the number of records a vector holds
RECURSIVE vec_len_to(_, _)
vec_len_to(v, k) ==
    IF k = 0 THEN 0 ELSE vec_len_to(v, k - 1) + v[k].n

vec_len(v) == vec_len_to(v, Len(v))

(***************************************************************************)
(* Actions.  Every external call is written `call(..).await`: the loop is  *)
(* suspended from the moment the call is issued until its answer is there. *)
(* An action of the loop that takes an answer stands for the call and its  *)
(* answer in one step when nothing is in flight, and for the answer alone  *)
(* when the call was issued by a step of its own (Issue, below).          *)
(***************************************************************************)
\* the calls in flight once `call` is answered
answered(calls, call) ==
    IF contains(calls, call)
    THEN LET j == CHOOSE i \in 1..Len(calls) :
                      calls[i] = call /\ \A k \in 1..(i - 1) : calls[k] # call
         IN  SubSeq(calls, 1, j - 1) \o SubSeq(calls, j + 1, Len(calls))
    ELSE calls

\* lines 171-177: block_number().await and the stop bound
QueryHead(HS) ==
    /\ pc = "head"
    /\ \E h \in HS : \E r \in u64_sub(h, CONFIRMATION_LAG) :
          /\ chain_head_block' = h
          /\ heads' = heads \cup {h}
          /\ stream_stop_block' = r.value
          /\ pc' = IF r.panic THEN "aborted" ELSE "block"
          /\ fault' = IF r.panic THEN "overflow" ELSE fault
    /\ in_flight' = answered(in_flight, "block_number")
    /\ UNCHANGED <<stop, current_block, transfer_storage, total_transfers, block, timestamp,
                   txi, fetched, receipts, produced, inserts, lines, receipt_logs>>

\* line 175: .expect("Failed to retrieve head block number from chain!")
HeadFail ==
    /\ pc = "head"
    /\ pc' = "aborted"
    /\ fault' = "head"
    /\ in_flight' = answered(in_flight, "block_number")
    /\ UNCHANGED <<stop, current_block, transfer_storage, total_transfers, chain_head_block,
                   stream_stop_block, block, timestamp, txi, heads, fetched, receipts,
                   produced, inserts, lines, receipt_logs>>

\* lines 179-185: block_with_txs(current_block).await, the block is there
\* (the chain holds the heights 0..top), and the timestamp in milliseconds
FetchBlock(BS, top) ==
    /\ pc = "block"
    /\ current_block <= top
    /\ \E blk \in BS :
          /\ block' = blk
          /\ timestamp' = blk.timestamp * 1000
          /\ fetched' = Append(fetched, [height |-> current_block,
                                         head |-> chain_head_block,
                                         timestamp |-> blk.timestamp,
                                         transactions |-> blk.transactions])
    /\ txi' = 1
    /\ pc' = "txs"
    /\ in_flight' = answered(in_flight, "block_with_txs")
    /\ UNCHANGED <<fault, stop, current_block, transfer_storage, total_transfers,
                   chain_head_block, stream_stop_block, heads, receipts, produced, inserts,
                   lines, receipt_logs>>

\* lines 182-183: the request fails, or the node has no block at the height
BlockFail ==
    /\ pc = "block"
    /\ pc' = "aborted"
    /\ fault' = "block"
    /\ in_flight' = answered(in_flight, "block_with_txs")
    /\ UNCHANGED <<stop, current_block, transfer_storage, total_transfers, chain_head_block,
                   stream_stop_block, block, timestamp, txi, heads, fetched, receipts,
                   produced, inserts, lines, receipt_logs>>

\* lines 193-196, 226-228: a transaction the transaction stage drops
SkipTx ==
    /\ pc = "txs"
    /\ txi <= Len(block.transactions)
    /\ ~tx_matches(block.transactions[txi])
    /\ txi' = txi + 1
    /\ UNCHANGED <<pc, fault, stop, current_block, transfer_storage, total_transfers,
                   chain_head_block, stream_stop_block, block, timestamp, heads, fetched,
                   receipts, produced, inserts, lines, receipt_logs, in_flight>>

\* mutant of TakeLogs: a log that fails to parse is skipped with the rest of
\* the receipt and the loop goes on
TakeLogs_skip(logs, kept) ==
    \E new \in {decoded(block.transactions[txi], logs, kept, timestamp, current_block, txi)} :
        /\ transfer_storage' = transfer_storage \o new
        /\ produced' = produced \o new
        /\ pc' = pc
        /\ fault' = IF Len(new) < Len(kept) THEN "decode" ELSE fault
        /\ txi' = txi + 1

\* mutant of TakeLogs: the records of a receipt go to the front of the buffer
TakeLogs_front(logs, kept) ==
    \E new \in {decoded(block.transactions[txi], logs, kept, timestamp, current_block, txi)} :
        /\ transfer_storage' = new \o transfer_storage
        /\ produced' = produced \o new
        /\ IF Len(new) < Len(kept)
           THEN pc' = "aborted" /\ fault' = "decode" /\ txi' = txi
           ELSE pc' = pc /\ fault' = fault /\ txi' = txi + 1

\* lines 198-225 for the receipt's logs: the filter, then the decoder
\* pushing until a log fails to parse
TakeLogs(logs, kept) ==
    \E new \in {decoded(block.transactions[txi], logs, kept, timestamp, current_block, txi)} :
        /\ transfer_storage' = transfer_storage \o new
        /\ produced' = produced \o new
        /\ IF Len(new) < Len(kept)
           THEN pc' = "aborted" /\ fault' = "decode" /\ txi' = txi
           ELSE pc' = pc /\ fault' = fault /\ txi' = txi + 1

\* mutant of FetchReceipt: the buffer is flushed as soon as it has reached
\* MONGO_BATCH_SIZE, after the transaction that filled it
FetchReceipt_flushing(RS) ==
    /\ pc = "txs"
    /\ txi <= Len(block.transactions)
    /\ tx_matches(block.transactions[txi])
    /\ receipts' = Append(receipts, <<current_block, txi>>)
    /\ in_flight' = answered(in_flight, "transaction_receipt")
    /\ \E logs \in RS :
          /\ receipt_logs' = Append(receipt_logs, [height |-> current_block, tx |-> txi,
                                                   logs |-> logs])
          /\ ~filter_panics(logs)
          /\ \E new \in {decoded(block.transactions[txi], logs, transfer_log(logs), timestamp,
                                  current_block, txi)} :
                /\ Len(new) = Len(transfer_log(logs))
                /\ produced' = produced \o new
                /\ IF vec_len(transfer_storage \o new) >= MONGO_BATCH_SIZE
                   THEN /\ inserts' = Append(inserts, [docs |-> transfer_storage \o new,
                                                       ok |-> TRUE,
                                                       stored |-> vec_len(transfer_storage \o new)])
                        /\ total_transfers' = total_transfers + vec_len(transfer_storage \o new)
                        /\ transfer_storage' = <<>>
                   ELSE /\ transfer_storage' = transfer_storage \o new
                        /\ UNCHANGED <<inserts, total_transfers>>
    /\ txi' = txi + 1
    /\ UNCHANGED <<pc, fault, stop, current_block, chain_head_block, stream_stop_block, block,
                   timestamp, heads, fetched, lines>>

\* lines 197-225: transaction_receipt(tx.hash).await, the log filter, the decoder
FetchReceipt(RS) ==
    /\ pc = "txs"
    /\ txi <= Len(block.transactions)
    /\ tx_matches(block.transactions[txi])
    /\ receipts' = Append(receipts, <<current_block, txi>>)
    /\ in_flight' = answered(in_flight, "transaction_receipt")
    /\ \E logs \in RS :
          /\ receipt_logs' = Append(receipt_logs, [height |-> current_block, tx |-> txi,
                                                   logs |-> logs])
          /\ IF filter_panics(logs)
             THEN /\ pc' = "aborted"
                  /\ fault' = "topics"
                  /\ UNCHANGED <<transfer_storage, produced, txi>>
             ELSE TakeLogs(logs, transfer_log(logs))
    /\ UNCHANGED <<stop, current_block, total_transfers, chain_head_block,
                   stream_stop_block, block, timestamp, heads, fetched, inserts, lines>>

\* line 197: .unwrap().unwrap() on a failed request or a missing receipt
ReceiptFail ==
    /\ pc = "txs"
    /\ txi <= Len(block.transactions)
    /\ tx_matches(block.transactions[txi])
    /\ receipts' = Append(receipts, <<current_block, txi>>)
    /\ pc' = "aborted"
    /\ fault' = "receipt"
    /\ in_flight' = answered(in_flight, "transaction_receipt")
    /\ UNCHANGED <<stop, current_block, transfer_storage, total_transfers, chain_head_block,
                   stream_stop_block, block, timestamp, txi, heads, fetched, produced,
                   inserts, lines, receipt_logs>>

\* mutant of reached_stop: the scan stops one height late
reached_stop_late(next_block, bound) == u64_gt(next_block, bound + 1)

\* line 232: if current_block > stream_stop_block
reached_stop(next_block, bound) == u64_gt(next_block, bound)

\* mutant of Advance: the for loop is left before its last transaction
Advance_early ==
    /\ pc = "txs"
    /\ current_block' = current_block + 1
    /\ stop' = (stop \/ reached_stop(current_block + 1, stream_stop_block))
    /\ block' = NoBlock
    /\ txi' = 1
    /\ pc' = "flush"
    /\ UNCHANGED <<fault, transfer_storage, total_transfers, chain_head_block,
                   stream_stop_block, timestamp, heads, fetched, receipts, produced,
                   inserts, lines, receipt_logs, in_flight>>

\* lines 230-234: the end of the for loop (the block is consumed), the cursor
\* and the stop test
Advance ==
    /\ pc = "txs"
    /\ txi > Len(block.transactions)
    /\ current_block' = current_block + 1
    /\ stop' = (stop \/ reached_stop(current_block + 1, stream_stop_block))
    /\ block' = NoBlock
    /\ txi' = 1
    /\ pc' = "flush"
    /\ UNCHANGED <<fault, transfer_storage, total_transfers, chain_head_block,
                   stream_stop_block, timestamp, heads, fetched, receipts, produced,
                   inserts, lines, receipt_logs, in_flight>>

\* what insert_many(..).await can answer for docs: all stored, or an error
\* after none or all but the last of them were stored
insert_outcomes(docs) ==
    {[ok |-> TRUE, stored |-> vec_len(docs)], [ok |-> FALSE, stored |-> 0]}
      \cup (IF vec_len(docs) > 0 THEN {[ok |-> FALSE, stored |-> vec_len(docs) - 1]} ELSE {})

\* mutant of must_flush: no final flush
must_flush_no_final == vec_len(transfer_storage) >= MONGO_BATCH_SIZE

\* mutant of must_flush: a buffer of exactly MONGO_BATCH_SIZE is kept
must_flush_strict == vec_len(transfer_storage) > MONGO_BATCH_SIZE \/ stop

\* line 236: if transfer_storage.len() >= MONGO_BATCH_SIZE || stop
must_flush == vec_len(transfer_storage) >= MONGO_BATCH_SIZE \/ stop

\* mutant of flush_total: the counter counts batches
flush_total_batches(total, docs) == total + 1

\* line 237: total_transfers += transfer_storage.len() as u64
flush_total(total, docs) == total + vec_len(docs)

\* mutant of after_insert: a failed batch stays in the buffer
after_insert_retry(docs, r) == IF r.ok THEN <<>> ELSE docs

\* lines 238-240: insert_many(..).await.ok(); transfer_storage.clear()
after_insert(docs, r) == <<>>

\* lines 236-242: the flush decision
FlushDecision ==
    /\ pc = "flush"
    /\ IF must_flush
       THEN /\ total_transfers' = flush_total(total_transfers, transfer_storage)
            /\ \E r \in insert_outcomes(transfer_storage) :
                  /\ inserts' = Append(inserts, [docs |-> transfer_storage, ok |-> r.ok,
                                                 stored |-> r.stored])
                  /\ transfer_storage' = after_insert(transfer_storage, r)
            /\ in_flight' = answered(in_flight, "insert_many")
       ELSE UNCHANGED <<total_transfers, inserts, transfer_storage, in_flight>>
    /\ pc' = "report"
    /\ UNCHANGED <<fault, stop, current_block, chain_head_block, stream_stop_block, block,
                   timestamp, txi, heads, fetched, receipts, produced, lines, receipt_logs>>

\* mutant of Report: the loop is left before the line of the last height
Report_no_last ==
    /\ pc = "report"
    /\ lines' = IF stop THEN lines
                ELSE Append(lines, [block |-> current_block, total |-> total_transfers,
                                    pending |-> vec_len(transfer_storage)])
    /\ pc' = IF stop THEN "stopped" ELSE "head"
    /\ UNCHANGED <<fault, stop, current_block, transfer_storage, total_transfers,
                   chain_head_block, stream_stop_block, block, timestamp, txi, heads,
                   fetched, receipts, produced, inserts, receipt_logs, in_flight>>

\* lines 244-248: the progress line and the exit of the loop
Report ==
    /\ pc = "report"
    /\ lines' = Append(lines, [block |-> current_block, total |-> total_transfers,
                               pending |-> vec_len(transfer_storage)])
    /\ pc' = IF stop THEN "stopped" ELSE "head"
    /\ UNCHANGED <<fault, stop, current_block, transfer_storage, total_transfers,
                   chain_head_block, stream_stop_block, block, timestamp, txi, heads,
                   fetched, receipts, produced, inserts, receipt_logs, in_flight>>

\* the external call the loop has arrived at, "none" where its next step is
\* local
call_at ==
    CASE pc = "head" -> "block_number"
      [] pc = "block" -> "block_with_txs"
      [] pc = "txs" /\ txi <= Len(block.transactions)
                    /\ tx_matches(block.transactions[txi]) -> "transaction_receipt"
      [] pc = "flush" /\ must_flush -> "insert_many"
      [] OTHER -> "none"

\* mutant of Issue: the call is started without being awaited, the loop
\* can issue again while it is in flight
Issue_detached ==
    /\ call_at # "none"
    /\ Len(in_flight) < 2
    /\ in_flight' = Append(in_flight, call_at)
    /\ UNCHANGED <<pc, fault, stop, current_block, transfer_storage, total_transfers,
                   chain_head_block, stream_stop_block, block, timestamp, txi, heads, fetched,
                   receipts, produced, inserts, lines, receipt_logs>>

\* lines 171-174, 179-181, 197, 238: the loop issues the call it has arrived
\* at and, by the .await on it, is suspended until the answer; it runs, and
\* so arrives at a call, only while it awaits nothing
Issue ==
    /\ call_at # "none"
    /\ in_flight = <<>>
    /\ in_flight' = Append(in_flight, call_at)
    /\ UNCHANGED <<pc, fault, stop, current_block, transfer_storage, total_transfers,
                   chain_head_block, stream_stop_block, block, timestamp, txi, heads, fetched,
                   receipts, produced, inserts, lines, receipt_logs>>

\* the answer of `call` can be taken: the call is in flight
awaited(call) == contains(in_flight, call)

(***************************************************************************)
(* Specifications                                                          *)
(***************************************************************************)
\* the scan against any head of Heads, any block of Blocks, any receipt of
\* SmallReceipts, with every failure the chain client and the store can report
Next ==
    \/ QueryHead(Heads)
    \/ HeadFail
    \/ FetchBlock(Blocks, MaxChain)
    \/ BlockFail
    \/ SkipTx
    \/ FetchReceipt(SmallReceipts)
    \/ ReceiptFail
    \/ Advance
    \/ FlushDecision
    \/ Report

Spec == Init /\ [][Next]_vars

\* the scan against a constant head and receipts that fill a batch
NextBatch ==
    \/ QueryHead(BulkHeads)
    \/ FetchBlock(BulkBlocks, MaxChain)
    \/ FetchReceipt(BulkReceipts)
    \/ Advance
    \/ FlushDecision
    \/ Report

SpecBatch == Init /\ [][NextBatch]_vars

\* the scan against a head that moves freely over a longer chain
NextHead ==
    \/ QueryHead(WideHeads)
    \/ FetchBlock(PlainBlocks, TallChain)
    \/ BlockFail
    \/ FetchReceipt(PlainReceipts)
    \/ Advance
    \/ FlushDecision
    \/ Report

SpecHead == Init /\ [][NextHead]_vars

\* the scan against a constant head and receipts of one Transfer each, of
\* any sender, receiver and value
NextDecode ==
    \/ QueryHead(BulkHeads)
    \/ FetchBlock(DecodeBlocks, MaxChain)
    \/ FetchReceipt(DecodeReceipts)
    \/ Advance
    \/ FlushDecision
    \/ Report

SpecDecode == Init /\ [][NextDecode]_vars

\* the scan against a constant head, any block of Blocks and any receipt of
\* SmallReceipts: the two filter stages and the decoder on every kind of
\* transaction and log
NextFilter ==
    \/ QueryHead(BulkHeads)
    \/ FetchBlock(Blocks, MaxChain)
    \/ SkipTx
    \/ FetchReceipt(SmallReceipts)
    \/ Advance
    \/ FlushDecision
    \/ Report

SpecFilter == Init /\ [][NextFilter]_vars

\* the scan of the first specification with every external call in two
\* steps, the call issued and its answer taken
NextAwait ==
    \/ Issue
    \/ awaited("block_number") /\ QueryHead(Heads)
    \/ awaited("block_number") /\ HeadFail
    \/ awaited("block_with_txs") /\ FetchBlock(Blocks, MaxChain)
    \/ awaited("block_with_txs") /\ BlockFail
    \/ SkipTx
    \/ awaited("transaction_receipt") /\ FetchReceipt(SmallReceipts)
    \/ awaited("transaction_receipt") /\ ReceiptFail
    \/ Advance
    \/ (must_flush => awaited("insert_many")) /\ FlushDecision
    \/ Report

SpecAwait == Init /\ [][NextAwait]_vars

(***************************************************************************)
(* Claims                                                                  *)
(***************************************************************************)
\* the iterations a scan against the constant head H makes
Iterations(H) == H - CONFIRMATION_LAG + 1

\* C1: with the head constant at H >= 50 for the whole run, the scan fetches
\* exactly the heights 0..H-50, each once and in increasing order (H-49
\* iterations, one progress line each), and stops right after the last of
\* them: the stop flag is set at the end of iteration H-49 and no iteration
\* starts beyond it.
C1_ConstantHead ==
    \A H \in WideHeads :
        (heads = {H} /\ H >= CONFIRMATION_LAG) =>
            /\ \A i \in 1..Len(fetched) : fetched[i].height = i - 1
            /\ Len(fetched) <= Iterations(H)
            /\ pc \in {"head", "block"} => current_block < Iterations(H)
            /\ (pc \in {"flush", "report"} /\ current_block = Iterations(H)) => stop
            /\ pc = "stopped" =>
                  /\ Len(fetched) = Iterations(H)
                  /\ Len(lines) = Iterations(H)
                  /\ current_block = Iterations(H)

\* C1 witness: a run against the constant head 52 that stopped after the heights 0, 1, 2
C1_Witness ==
    /\ pc = "stopped"
    /\ heads = {CONFIRMATION_LAG + 2}
    /\ Len(fetched) = 3
    /\ fetched[3].height = 2

\* C2: whatever heads the chain client reports (here: all of them at least
\* the lag, so that no stop bound wrapped), the height whose block is fetched
\* is at most the stop bound of that same iteration, head - 50: no block
\* less than 50 below the currently reported head is read.
\* (pc = "txs": the block of current_block has just been fetched under
\* chain_head_block.)
C2_FetchWithinStopBound ==
    (pc = "txs" /\ \A h \in heads : h >= CONFIRMATION_LAG) =>
        current_block <= chain_head_block - CONFIRMATION_LAG

HighestHead == CHOOSE h \in heads : \A g \in heads : g <= h

C4_NoEmptyInsert ==
    \A i \in 1..Len(inserts) : inserts[i].docs # <<>>

\* the documents of the first n insert_many calls, in call order
RECURSIVE all_docs(_, _)
all_docs(calls, n) ==
    IF n = 0 THEN <<>> ELSE all_docs(calls, n - 1) \o calls[n].docs

\* any step of the loop, whatever the environment
AnyStep == Next \/ NextBatch \/ NextHead \/ NextDecode \/ NextFilter \/ NextAwait

\* C5: when the loop is left through the stop flag the buffer is empty, the
\* documents of the insert_many calls, taken in call order, are exactly the
\* records decoded during the run (each in one call, none dropped, none
\* twice: their origins are pairwise different), at least one call was made
\* (the final flush, also below MONGO_BATCH_SIZE), and no step of the loop
\* is enabled any more.
C5_AllHandedOverOnce ==
    pc = "stopped" =>
        /\ transfer_storage = <<>>
        /\ Len(inserts) >= 1
        /\ all_docs(inserts, Len(inserts)) = produced
        /\ \A k, l \in 1..Len(produced) :
              (k < l /\ produced[k].origin[1] = produced[l].origin[1]
                     /\ produced[k].origin[2] = produced[l].origin[2])
                => produced[k].origin[3] + produced[k].n <= produced[l].origin[3]
        /\ ~ENABLED AnyStep

\* C5 witness: a stopped run with a batch flushed at the threshold and a
\* final flush of fewer than MONGO_BATCH_SIZE records
C5_Witness ==
    /\ pc = "stopped"
    /\ Len(inserts) = 2
    /\ vec_len(inserts[1].docs) >= MONGO_BATCH_SIZE
    /\ vec_len(inserts[2].docs) > 0
    /\ vec_len(inserts[2].docs) < MONGO_BATCH_SIZE

\* C6: at a flush decision point the buffer is flushed (one insert_many call
\* with the buffer, the buffer cleared) if and only if it holds at least
\* MONGO_BATCH_SIZE records or the stop flag is set, and is left as it is
\* otherwise; after the decision it holds at most MONGO_BATCH_SIZE records,
\* and a buffer of exactly MONGO_BATCH_SIZE records is cleared to length 0.
C6_FlushIffDue ==
    [][pc = "flush" =>
        /\ (Len(inserts') = Len(inserts) + 1)
              <=> (vec_len(transfer_storage) >= MONGO_BATCH_SIZE \/ stop)
        /\ (Len(inserts') = Len(inserts) + 1) =>
              /\ inserts'[Len(inserts')].docs = transfer_storage
              /\ transfer_storage' = <<>>
        /\ (Len(inserts') # Len(inserts) + 1) =>
              /\ inserts' = inserts
              /\ transfer_storage' = transfer_storage
        /\ vec_len(transfer_storage') <= MONGO_BATCH_SIZE
        /\ (vec_len(transfer_storage) = MONGO_BATCH_SIZE) => vec_len(transfer_storage') = 0
        /\ pc' = "report"]_vars

\* C6 witness: a buffer of exactly MONGO_BATCH_SIZE records was flushed at a
\* decision point that was not the last one
C6_Witness ==
    /\ pc = "report"
    /\ ~stop
    /\ transfer_storage = <<>>
    /\ Len(inserts) = 1
    /\ vec_len(inserts[1].docs) = MONGO_BATCH_SIZE

\* C7: a flush issues exactly one insert_many call, carrying the whole
\* buffer, and clears the buffer whatever the call answers; the run goes on
\* to the progress line and, unless the stop flag is set, to the next
\* height; no other step calls insert_many, and what has been handed over
\* never comes back: calls and buffer together always hold every decoded
\* record exactly once.
C7_FailedInsertDropsBatch ==
    [][/\ (pc = "flush" /\ inserts' # inserts) =>
            /\ Len(inserts') = Len(inserts) + 1
            /\ SubSeq(inserts', 1, Len(inserts)) = inserts
            /\ inserts'[Len(inserts')].docs = transfer_storage
            /\ transfer_storage' = <<>>
            /\ pc' = "report"
            /\ fault' = "none"
       /\ (pc # "flush") => inserts' = inserts
       /\ (pc = "report" /\ ~stop) => (pc' = "head" /\ fault' = "none")
       /\ all_docs(inserts', Len(inserts')) \o transfer_storage' = produced'
      ]_vars

\* C7 witness: the insert of a full batch failed, the buffer is empty and
\* the block of the next height has been fetched
C7_Witness ==
    /\ pc = "txs"
    /\ Len(inserts) = 1
    /\ ~inserts[1].ok
    /\ vec_len(inserts[1].docs) >= MONGO_BATCH_SIZE
    /\ transfer_storage = <<>>
    /\ Len(fetched) = 2

RECURSIVE sum_docs(_, _)
sum_docs(calls, n) ==
    IF n = 0 THEN 0 ELSE sum_docs(calls, n - 1) + vec_len(calls[n].docs)

RECURSIVE sum_stored(_, _)
sum_stored(calls, n) ==
    IF n = 0 THEN 0 ELSE sum_stored(calls, n - 1) + calls[n].stored

\* C8: total_transfers is the number of records handed to insert_many,
\* stored or not: at every point of the run (so after every flush decision)
\* total_transfers plus the buffer length is the number of records decoded
\* so far, and total_transfers is at least what the store took.
C8_TotalCountsHandedOver ==
    /\ total_transfers = sum_docs(inserts, Len(inserts))
    /\ total_transfers + vec_len(transfer_storage) = vec_len(produced)
    /\ total_transfers >= sum_stored(inserts, Len(inserts))

\* C8 witness: after a flush whose insert failed with nothing stored, the
\* counter has the records of the failed batch
C8_Witness ==
    /\ pc = "report"
    /\ Len(inserts) = 1
    /\ ~inserts[1].ok
    /\ inserts[1].stored = 0
    /\ total_transfers >= MONGO_BATCH_SIZE
    /\ total_transfers > sum_stored(inserts, Len(inserts))

\* C9: a log without topics in the receipt of a watched transaction is
\* rejected by the filter and does not crash the process.
C9_EmptyTopicsRejected ==
    ~(pc = "aborted" /\ fault = "topics")

\* the addresses of the watched-contract set
Watched == {WETH, AXS, SLP}

\* the transactions of the i-th fetched block the for loop is through with
through(i) ==
    IF /\ i = Len(fetched)
       /\ pc = "txs" \/ (pc = "aborted" /\ fault \in {"receipt", "topics", "decode"})
    THEN 1..(txi - 1)
    ELSE 1..Len(fetched[i].transactions)

\* C10: a receipt is fetched only for a transaction whose `to` is in the
\* watched set, never twice for the same transaction, and for every such
\* transaction the loop is through with; a block without such a
\* transaction contributes no record.
C10_ReceiptIffWatched ==
    /\ \A k \in 1..Len(receipts) :
          \E i \in 1..Len(fetched) :
              /\ fetched[i].height = receipts[k][1]
              /\ receipts[k][2] \in 1..Len(fetched[i].transactions)
              /\ fetched[i].transactions[receipts[k][2]] \in Watched
    /\ \A k, l \in 1..Len(receipts) : k # l => receipts[k] # receipts[l]
    /\ \A i \in 1..Len(fetched) : \A t \in through(i) :
          fetched[i].transactions[t] \in Watched =>
              \E k \in 1..Len(receipts) : receipts[k] = <<fetched[i].height, t>>
    /\ \A i \in 1..Len(fetched) :
          (\A t \in 1..Len(fetched[i].transactions) :
              fetched[i].transactions[t] \notin Watched) =>
              \A k \in 1..Len(produced) : produced[k].origin[1] # fetched[i].height

\* C10 witness: a block whose first transaction goes to another address and
\* whose second goes to a watched one: one receipt fetched, for the second,
\* and a record decoded from it
C10_Witness ==
    /\ pc = "flush"
    /\ Len(fetched) = 1
    /\ fetched[1].transactions = <<STRANGER, WETH>>
    /\ receipts = << <<0, 2>> >>
    /\ vec_len(produced) = 1

\* the addresses the registry holds with the standard ERC20
Erc20Registry ==
    {a \in {WETH, AXS, SLP, STRANGER} :
        to_string(a) \in DOMAIN map /\ map[to_string(a)].erc = "ERC20"}

\* a log that is a Transfer of a registry contract
is_transfer_of_registry(log) ==
    /\ Len(log.topics) >= 1
    /\ log.topics[1] = TRANSFER_SIG
    /\ log.address \in Erc20Registry

\* C11: every record pushed to the buffer comes from a log of a returned
\* receipt whose topic 0 is the Transfer signature hash and whose emitting
\* address is a registry address with the standard ERC20; a log of a
\* returned receipt that fails either condition has no record.
C11_OnlyRegistryTransfers ==
    /\ \A k \in 1..Len(produced) :
          \E r \in 1..Len(receipt_logs) : \E i \in 1..Len(receipt_logs[r].logs) :
              /\ receipt_logs[r].height = produced[k].origin[1]
              /\ receipt_logs[r].tx = produced[k].origin[2]
              /\ logs_before(receipt_logs[r].logs, i) + 1 = produced[k].origin[3]
              /\ receipt_logs[r].logs[i].n = produced[k].n
              /\ is_transfer_of_registry(receipt_logs[r].logs[i].log)
    /\ \A r \in 1..Len(receipt_logs) : \A i \in 1..Len(receipt_logs[r].logs) :
          ~is_transfer_of_registry(receipt_logs[r].logs[i].log) =>
              \A k \in 1..Len(produced) :
                  produced[k].origin # <<receipt_logs[r].height, receipt_logs[r].tx,
                                         logs_before(receipt_logs[r].logs, i) + 1>>

\* C11 witness: a receipt with an Approval of a registry contract, a
\* Transfer of a contract outside the registry and a Transfer of a registry
\* contract gave one record, for its third log
C11_Witness ==
    /\ Len(receipt_logs) = 1
    /\ receipt_logs[1].logs = <<Run(ApprovalLog, 1), Run(StrangerLog, 1), Run(GoodLog, 1)>>
    /\ Len(produced) = 1
    /\ produced[1].origin[3] = 3
    /\ pc = "flush"

\* the records pushed for the i-th run of the r-th returned receipt
records_of(r, i) ==
    {k \in 1..Len(produced) :
        produced[k].origin = <<receipt_logs[r].height, receipt_logs[r].tx,
                               logs_before(receipt_logs[r].logs, i) + 1>>}

\* the fetched block the r-th returned receipt belongs to
block_of(r) ==
    fetched[CHOOSE j \in 1..Len(fetched) : fetched[j].height = receipt_logs[r].height]

\* one record for each log of the i-th run of the r-th receipt, with the
\* recipient of the transaction as contract and the block's timestamp in
\* milliseconds
one_record(r, i) ==
    /\ Cardinality(records_of(r, i)) = 1
    /\ \A k \in records_of(r, i) :
          /\ produced[k].n = receipt_logs[r].logs[i].n
          /\ produced[k].contract = to_string(block_of(r).transactions[receipt_logs[r].tx])
          /\ produced[k].timestamp = block_of(r).timestamp * 1000

\* C12 as claimed: for each log (of a transaction to a watched contract)
\* that passes the log filter exactly one record is appended to the buffer;
\* its contract is the recipient of the enclosing transaction, also when
\* another registry contract emitted the log, and its timestamp is the
\* block's timestamp in seconds times 1000.  (Stated for the runs in which
\* every head is at least the lag, so that no stop bound wrapped.)
C12_OneRecordPerMatchedLog ==
    (\A h \in heads : h >= CONFIRMATION_LAG) =>
        \A r \in 1..Len(receipt_logs) : \A i \in 1..Len(receipt_logs[r].logs) :
            is_transfer_of_registry(receipt_logs[r].logs[i].log) => one_record(r, i)

\* the decoder gets to the i-th run of the r-th receipt and decodes it: the
\* filter went through the whole receipt (every log has a topic 0) and
\* every log it kept, up to this one, parses as a Transfer
decoder_accepts(r, i) ==
    /\ \A j \in 1..Len(receipt_logs[r].logs) : Len(receipt_logs[r].logs[j].log.topics) >= 1
    /\ \A j \in 1..i :
          is_transfer_of_registry(receipt_logs[r].logs[j].log) =>
              parse_ok(receipt_logs[r].logs[j].log)

\* C12 as amended: for each log that passes both filter stages and that the
\* decoder gets to and decodes, exactly one record is appended, with the
\* recipient of the enclosing transaction as contract and the block's
\* timestamp times 1000; a log that passes both filter stages in a receipt
\* the process panics on (at the filter, or at a kept log before it or at
\* itself in the decoder) has no record, and the run is over.
C12_OneRecordPerDecodedLog ==
    \A r \in 1..Len(receipt_logs) : \A i \in 1..Len(receipt_logs[r].logs) :
        is_transfer_of_registry(receipt_logs[r].logs[i].log) =>
            IF decoder_accepts(r, i)
            THEN one_record(r, i)
            ELSE records_of(r, i) = {} /\ pc = "aborted"

\* C12 witness: a transaction to AXS whose receipt holds a Transfer emitted
\* by WETH: one record, its contract the address of AXS, its timestamp in
\* milliseconds
C12_Witness ==
    /\ Len(receipt_logs) = 2
    /\ block_of(2).transactions[receipt_logs[2].tx] = AXS
    /\ receipt_logs[2].logs = <<Run(GoodLog, 1)>>
    /\ produced[Len(produced)].contract = to_string(AXS)
    /\ produced[Len(produced)].origin = <<0, 2, 1>>
    /\ produced[Len(produced)].timestamp = 1700000

DecDigit == <<"0", "1", "2", "3", "4", "5", "6", "7", "8", "9">>

\* the base-10 digits of n
RECURSIVE decimal_string(_)
decimal_string(n) ==
    IF n < 10 THEN <<DecDigit[n + 1]>>
    ELSE Append(decimal_string(n \div 10), DecDigit[(n % 10) + 1])

\* the address a `from` or `to` string of a record denotes
address_of(s) == CHOOSE a \in {WETH, AXS, SLP, STRANGER} : address_display(a) = s

\* the log the k-th record was decoded from
source_log(k) ==
    LET r == CHOOSE q \in 1..Len(receipt_logs) :
                 /\ receipt_logs[q].height = produced[k].origin[1]
                 /\ receipt_logs[q].tx = produced[k].origin[2]
        i == CHOOSE j \in 1..Len(receipt_logs[r].logs) :
                 logs_before(receipt_logs[r].logs, j) + 1 = produced[k].origin[3]
    IN  receipt_logs[r].logs[i].log

\* C13: decoding round-trips: the record decoded from the log that encodes
\* Transfer(from, to, value) has the original from and to, and its value is
\* the base-10 decimal string of the integer.
C13_DecodeRoundTrip ==
    \A k \in 1..Len(produced) :
        /\ address_of(produced[k].from) = source_log(k).topics[2]
        /\ address_of(produced[k].to) = source_log(k).topics[3]
        /\ produced[k].value = decimal_string(source_log(k).data[1])

\* C14: a failure of the head query, of a block fetch, of a receipt fetch or
\* of a log decode ends the run at once: the step that fails leaves the
\* loop (no insert_many in it, the buffer as the decoder left it), and no
\* step is ever taken after a failure: no chain request, no insert_many, no
\* change of the cursor, so the records in the buffer are never handed over.
C14_FailureEndsRun ==
    [][/\ fault = "none"
       /\ fault' # "none" =>
             /\ pc' = "aborted"
             /\ inserts' = inserts
             /\ current_block' = current_block
             /\ all_docs(inserts', Len(inserts')) \o transfer_storage' = produced'
      ]_vars

\* C14 witness: the decoder failed on the second kept log of a receipt with
\* the record of the first in the buffer; nothing was inserted
C14_Witness ==
    /\ pc = "aborted"
    /\ fault = "decode"
    /\ vec_len(transfer_storage) >= 1
    /\ inserts = <<>>
    /\ ~ENABLED AnyStep

\* the i-th fetched block is consumed: every transaction of it to a watched
\* contract had its receipt returned, and every log of that receipt that
\* passes the filter has its record
consumed(i) ==
    \A t \in 1..Len(fetched[i].transactions) :
        fetched[i].transactions[t] \in Watched =>
            \E r \in 1..Len(receipt_logs) :
                /\ receipt_logs[r].height = fetched[i].height
                /\ receipt_logs[r].tx = t
                /\ \A j \in 1..Len(receipt_logs[r].logs) :
                      is_transfer_of_registry(receipt_logs[r].logs[j].log) => one_record(r, j)

\* C15: current_block never decreases and grows by exactly 1 in every
\* iteration of the loop (at the end of the for loop over the block's
\* transactions, nowhere else); the heights fetched are 0, 1, 2, .. without
\* a repetition; and when the block of the next height is requested, every
\* block fetched before is consumed, transactions and logs.
C15_SequentialHeights ==
    [][/\ current_block' = current_block \/ current_block' = current_block + 1
       /\ (current_block' # current_block) <=> (pc = "txs" /\ pc' = "flush")
       /\ current_block' = Len(lines') + (IF pc' \in {"flush", "report"} THEN 1 ELSE 0)
       /\ Len(fetched') # Len(fetched) =>
             /\ Len(fetched') = Len(fetched) + 1
             /\ fetched'[Len(fetched')].height = current_block
             /\ \A i \in 1..Len(fetched) :
                   /\ fetched[i].height = i - 1
                   /\ fetched[i].height < current_block
                   /\ consumed(i)
      ]_vars

\* C15 witness: the block of height 1 has been fetched after the block of
\* height 0, whose two transactions to watched contracts gave two records
C15_Witness ==
    /\ pc = "txs"
    /\ current_block = 1
    /\ Len(fetched) = 2
    /\ fetched[1].transactions = <<WETH, AXS>>
    /\ Len(receipt_logs) = 2
    /\ vec_len(produced) = 2

\* record a comes before record b in the order of (block height, transaction
\* index within the block, log index within the receipt)
comes_before(a, b) ==
    \/ a.origin[1] < b.origin[1]
    \/ a.origin[1] = b.origin[1] /\ a.origin[2] < b.origin[2]
    \/ a.origin[1] = b.origin[1] /\ a.origin[2] = b.origin[2]
          /\ a.origin[3] + a.n <= b.origin[3]

in_scan_order(v) == \A k, l \in 1..Len(v) : k < l => comes_before(v[k], v[l])

\* C16: the records of the insert_many calls, call after call, followed by
\* the records in the buffer, are in the order of (block height, transaction
\* index, log index): within every call, across successive calls, and in
\* the buffer, which only grows at its end or is cleared.
C16_ScanOrder ==
    [][/\ in_scan_order(all_docs(inserts', Len(inserts')) \o transfer_storage')
       /\ \/ transfer_storage' = <<>>
          \/ /\ Len(transfer_storage') >= Len(transfer_storage)
             /\ SubSeq(transfer_storage', 1, Len(transfer_storage)) = transfer_storage
      ]_vars

\* C16 witness: a first call with the records of two logs of one receipt
\* and of a second transaction of the same block, a second call with the
\* records of the next block
C16_Witness ==
    /\ pc = "stopped"
    /\ Len(inserts) = 2
    /\ Len(inserts[1].docs) = 3
    /\ inserts[1].docs[1].origin = <<0, 1, 1>>
    /\ inserts[1].docs[2].origin = <<0, 1, 3>>
    /\ inserts[1].docs[3].origin[2] = 2
    /\ Len(inserts[2].docs) >= 1
    /\ inserts[2].docs[1].origin[1] = 1

\* C17: at most one external call (head query, block fetch, receipt fetch,
\* insert_many) is in flight at any time: a call is issued only when none
\* is in flight and its answer is taken before the next is issued, so no
\* two calls overlap, of the same kind or of different kinds; every answer
\* is that of the one call in flight; and the buffer changes only in a step
\* of the loop that takes the answer of a receipt fetch or of an
\* insert_many, never while a call is left in flight.
C17_OneCallInFlight ==
    [][/\ Len(in_flight) <= 1 /\ Len(in_flight') <= 1
       /\ in_flight' # in_flight => (in_flight = <<>> \/ in_flight' = <<>>)
       /\ heads' # heads \/ (pc = "head" /\ pc' = "aborted")
             => (in_flight = <<"block_number">> /\ in_flight' = <<>>)
       /\ fetched' # fetched \/ (pc = "block" /\ pc' = "aborted")
             => (in_flight = <<"block_with_txs">> /\ in_flight' = <<>>)
       /\ receipts' # receipts => (in_flight = <<"transaction_receipt">> /\ in_flight' = <<>>)
       /\ inserts' # inserts => (in_flight = <<"insert_many">> /\ in_flight' = <<>>)
       /\ transfer_storage' # transfer_storage =>
             (in_flight \in {<<"transaction_receipt">>, <<"insert_many">>} /\ in_flight' = <<>>)
       /\ in_flight # <<>> => (pc' = pc \/ in_flight' = <<>>)
      ]_vars

\* C17 witness: the receipt of the second watched transaction of a block
\* is being fetched; the first receipt has been returned and decoded
C17_Witness ==
    /\ in_flight = <<"transaction_receipt">>
    /\ pc = "txs"
    /\ txi = 2
    /\ Len(receipt_logs) = 1
    /\ Len(receipts) = 1
    /\ vec_len(transfer_storage) = 1

\* the heights the records of a vector come from
heights_of(v) == {v[k].origin[1] : k \in 1..Len(v)}

\* C18: the flush decision is taken once per processed height, after the
\* block of that height is consumed (every record of it is in the buffer),
\* and insert_many is called nowhere else; so the records of one block all
\* go to the same insert_many call: no height has records in two calls, or
\* in a call and in the buffer.  (That a single call can carry more than
\* MONGO_BATCH_SIZE records is the witness.)
C18_BlockInOneCall ==
    [][/\ pc' = "report" =>
             /\ pc = "flush"
             /\ Len(fetched) = current_block
             /\ Len(lines) = current_block - 1
             /\ consumed(Len(fetched))
             /\ vec_len(produced) = total_transfers + vec_len(transfer_storage)
       /\ inserts' # inserts => (pc = "flush" /\ Len(inserts') = Len(inserts) + 1)
       /\ Len(inserts') <= current_block'
       /\ \A i \in 1..Len(inserts') :
             /\ heights_of(inserts'[i].docs) \cap heights_of(transfer_storage') = {}
             /\ \A j \in 1..Len(inserts') :
                   i # j => heights_of(inserts'[i].docs) \cap heights_of(inserts'[j].docs) = {}
      ]_vars

\* C18 witness: one insert_many call, made at the threshold, with more than
\* MONGO_BATCH_SIZE records, all of them of the two transactions of block 0
C18_Witness ==
    /\ Len(inserts) = 1
    /\ ~stop
    /\ vec_len(inserts[1].docs) > MONGO_BATCH_SIZE
    /\ heights_of(inserts[1].docs) = {0}
    /\ {inserts[1].docs[k].origin[2] : k \in 1..Len(inserts[1].docs)} = {1, 2}
    /\ transfer_storage = <<>>

\* C19: for every head H the chain client reports, also H < 50, the stop
\* bound H - 50 computed on u64 does not wrap around: it never exceeds H,
\* and no block above the head reported in its iteration is requested.
C19_StopBoundNoWrap ==
    /\ heads # {} => ~u64_gt(stream_stop_block, chain_head_block)
    /\ \A i \in 1..Len(fetched) : ~u64_gt(fetched[i].height, fetched[i].head)

\* C20: exactly one progress line is printed per processed height, the
\* last one before stopping included, and it is printed after the flush
\* decision of that height: its pending count is the buffer length after
\* the decision (0 when the buffer was flushed, so 0 on the final line) and
\* its total is total_transfers after the decision, the records of every
\* insert_many call so far, that of this height included.
C20_OneLinePerHeight ==
    [][/\ lines' # lines =>
             /\ pc = "report"
             /\ Len(lines') = Len(lines) + 1
             /\ SubSeq(lines', 1, Len(lines)) = lines
             /\ lines'[Len(lines')].pending = vec_len(transfer_storage)
             /\ lines'[Len(lines')].total = total_transfers
             /\ lines'[Len(lines')].total = sum_docs(inserts, Len(inserts))
             /\ lines'[Len(lines')].total + lines'[Len(lines')].pending = vec_len(produced)
             /\ stop => lines'[Len(lines')].pending = 0
       /\ pc' = "report" =>
             (inserts' # inserts => vec_len(transfer_storage') = 0)
       /\ pc' \in {"head", "stopped"} => Len(lines') = current_block'
       /\ pc' \in {"flush", "report"} => Len(lines') = current_block' - 1
       /\ pc' = "stopped" =>
             /\ Len(lines') = Len(fetched')
             /\ lines'[Len(lines')].pending = 0
             /\ lines'[Len(lines')].total = vec_len(produced')
      ]_vars

\* C20 witness: a stopped run of two heights: the line of the first reports
\* one pending record and nothing handed over, the final line reports no
\* pending record and every record handed over
C20_Witness ==
    /\ pc = "stopped"
    /\ Len(lines) = 2
    /\ lines[1].pending = 1
    /\ lines[1].total = 0
    /\ lines[2].pending = 0
    /\ lines[2].total = vec_len(produced)
    /\ lines[2].total >= 2

=============================================================================
